---------------------------- MODULE Spec2Model ----------------------------
(***************************************************************************)
(* nlogx: the streaming tokenizer (parseRecords), the normalizer           *)
(* (expandRecords), the filter stages (filter) and the wiring of main.     *)
(*                                                                         *)
(* Text is modelled as a sequence of symbols.  A symbol is one of the      *)
(* five characters the scanner tells apart (space, '[', ']', '"', newline),*)
(* an invalid byte of the stream, or a run of other characters, which      *)
(* the scanner copies without looking at them.                             *)
(***************************************************************************)
EXTENDS Integers, Sequences, FiniteSets, TLC

\* ------------------------------------------------------------------ bounds
\* Fields the scanner may accumulate on one line (the code has no limit).
MaxFields == 10
\* Irregularities of one scanned line: a character of a field other than
\* the plain one, a character beyond a field's first, an empty field.
MaxOdd == 1

\* Lines of the input of a run of the whole pipeline.
MaxInput == 3
\* The capacity of a filter's channel, 32 in the code; the channels of
\* parseRecords and expandRecords hold twice as much, 64.
QueueCap == 1

\* Pieces, separated by single spaces, of the request of a raw record given
\* to the normalizer alone.
MaxTokens == 4

\* ------------------------------------------------------------------ widths
MinColumns == 145
DefaultColumns == 200

\* --------------------------------------------------------------- characters
SP == " "
NL == "\n"
LB == "["
RB == "]"
QT == "\""
\* The plain run of ordinary characters.
Plain == "a"
\* A byte that is no valid UTF-8 encoding.
Invalid == "<ff>"
\* The UTF-8 encoding of U+FFFD.
Replacement == "<U+FFFD>"

\* What the reader can deliver next.
Bytes == {Plain, SP, LB, RB, QT, NL, Invalid}

\* bufio.Reader.ReadRune followed by strings.Builder.WriteRune: an invalid
\* byte is read as U+FFFD and written as the encoding of U+FFFD.
DecodeRune(b) == IF b = Invalid THEN Replacement ELSE b

\* ------------------------------------------------------------------ scanner
stepBegin == 0
stepBare == 1
stepQuote == 2
stepBracket == 3

RawRecord(l) ==
    [ip |-> l[1], when |-> l[4], req |-> l[5], code |-> l[6],
     referrer |-> l[8], agent |-> l[9]]

\* The scanner's locals, with the records it sent (out) and the tokens it
\* closed (ended) while taking the steps applied to it.
ScanInit == [step |-> stepBegin, token |-> <<>>, line |-> <<>>,
             out |-> <<>>, ended |-> <<>>]

_eol(l) == IF Len(l) # 9 THEN <<>> ELSE <<RawRecord(l)>>

\* An end of line that keeps the fields of a line it does not send.
endOfLineKeep(sc) ==
    IF Len(sc.line) # 9 THEN sc
    ELSE [sc EXCEPT !.out = @ \o _eol(sc.line), !.line = <<>>]

endOfLine(sc) == [sc EXCEPT !.out = @ \o _eol(sc.line), !.line = <<>>]

endOfToken(sc) ==
    [sc EXCEPT !.line = Append(@, sc.token), !.token = <<>>,
               !.ended = Append(@, sc.token)]

WriteRune(sc, r) == [sc EXCEPT !.token = Append(@, r)]

\* case stepBegin
StepBegin(sc, r) ==
    CASE r = SP -> sc
      [] r = LB -> [sc EXCEPT !.step = stepBracket]
      [] r = QT -> [sc EXCEPT !.step = stepQuote]
      [] r = NL -> endOfLine(sc)
      [] OTHER  -> [WriteRune(sc, r) EXCEPT !.step = stepBare]

\* case stepBare
StepBare(sc, r) ==
    CASE r = SP -> [endOfToken(sc) EXCEPT !.step = stepBegin]
      [] r = NL -> [endOfLine(endOfToken(sc)) EXCEPT !.step = stepBegin]
      [] OTHER  -> WriteRune(sc, r)

\* A scanner that splits on spaces inside quotes too.
StepQuoteSplit(sc, r) ==
    CASE r \in {QT, SP} -> [endOfToken(sc) EXCEPT !.step = stepBegin]
      [] r = NL -> [endOfLine(endOfToken(sc)) EXCEPT !.step = stepBegin]
      [] OTHER  -> WriteRune(sc, r)

\* case stepQuote
StepQuote(sc, r) ==
    CASE r = QT -> [endOfToken(sc) EXCEPT !.step = stepBegin]
      [] r = NL -> [endOfLine(endOfToken(sc)) EXCEPT !.step = stepBegin]
      [] OTHER  -> WriteRune(sc, r)

\* A bracket that a newline would not end.
StepBracketOpen(sc, r) ==
    CASE r = RB -> [endOfToken(sc) EXCEPT !.step = stepBegin]
      [] OTHER  -> WriteRune(sc, r)

\* case stepBracket
StepBracket(sc, r) ==
    CASE r = RB -> [endOfToken(sc) EXCEPT !.step = stepBegin]
      [] r = NL -> [endOfLine(endOfToken(sc)) EXCEPT !.step = stepBegin]
      [] OTHER  -> WriteRune(sc, r)

\* One iteration of the loop after a successful ReadRune.
ScanRune(sc, b) ==
    LET r == DecodeRune(b) IN
    CASE sc.step = stepBegin   -> StepBegin(sc, r)
      [] sc.step = stepBare    -> StepBare(sc, r)
      [] sc.step = stepQuote   -> StepQuote(sc, r)
      [] sc.step = stepBracket -> StepBracket(sc, r)

\* The iteration whose ReadRune fails, up to the test of the error.
ScanStop(sc) ==
    endOfLine(IF Len(sc.token) > 0 THEN endOfToken(sc) ELSE sc)

\* The iterations of the loop for the bytes bs, all read successfully (the
\* scanner after each byte is computed once, as the member of a set).
RECURSIVE ScanRunes(_, _)
ScanRunes(sc, bs) ==
    IF bs = <<>> THEN sc
    ELSE CHOOSE res \in {ScanRunes(nx, Tail(bs)) :
                            nx \in {ScanRune(sc, Head(bs))}} : TRUE


\* ------------------------------------------------------------- log format
Bare == "bare"
Bracket == "bracket"
Quote == "quote"
Kinds == {Bare, Bracket, Quote}

\* address - - [timestamp] "request" status size "referrer" "agent"
LogFormat == <<Bare, Bare, Bare, Bracket, Quote, Bare, Bare, Quote, Quote>>

\* A field as the log format writes it.
Delimit(kind, content) ==
    CASE kind = Bare    -> content
      [] kind = Bracket -> <<LB>> \o content \o <<RB>>
      [] kind = Quote   -> <<QT>> \o content \o <<QT>>

\* ------------------------------------------------------------- normalizer
\* strconv.ParseInt(s, 10, 32) on the status texts of the model: the value
\* of a decimal numeral that fits 32 bits, an error for a numeral that does
\* not and for any other text.
Numerals == ("0" :> 0) @@ ("200" :> 200) @@ ("301" :> 301) @@ ("-7" :> -7)
            @@ ("2147483647" :> 2147483647)
            @@ ("100" :> 100) @@ ("144" :> 144) @@ ("145" :> 145)
            @@ ("146" :> 146) @@ ("250" :> 250)
TooLong == {"2147483648", "4294967296"}

ParseInt(s) ==
    IF Len(s) = 1 /\ s[1] \in DOMAIN Numerals /\ s[1] \notin TooLong
    THEN [err |-> FALSE, val |-> Numerals[s[1]]]
    ELSE [err |-> TRUE, val |-> 0]

\* strconv.ParseInt(s, 0, 64), the conversion of pflag's int64 value, on the
\* decimal texts of the model that fit 32 bits.
ParseInt64(s) ==
    IF Len(s) = 1 /\ s[1] \in DOMAIN Numerals
    THEN [err |-> FALSE, val |-> Numerals[s[1]]]
    ELSE [err |-> TRUE, val |-> 0]

\* A split that would cut at every space.
RECURSIVE SplitEvery(_, _)
SplitEvery(s, n) ==
    LET cuts == {i \in DOMAIN s : s[i] = SP} IN
    IF cuts = {} THEN <<s>>
    ELSE LET i == CHOOSE c \in cuts : \A d \in cuts : c <= d IN
         <<SubSeq(s, 1, i - 1)>> \o SplitEvery(SubSeq(s, i + 1, Len(s)), n)

\* strings.SplitN(s, " ", 3): cut at the first two spaces.
RECURSIVE SplitN(_, _)
SplitN(s, n) ==
    LET cuts == {i \in DOMAIN s : s[i] = SP} IN
    IF n = 1 \/ cuts = {} THEN <<s>>
    ELSE LET i == CHOOSE c \in cuts : \A d \in cuts : c <= d IN
         <<SubSeq(s, 1, i - 1)>> \o SplitN(SubSeq(s, i + 1, Len(s)), n - 1)

versionToCode ==
    (<<"HTTP/0.9">> :> 0) @@ (<<"HTTP/1.0">> :> 0) @@ (<<"HTTP/1.1">> :> 1)
    @@ (<<"HTTP/2.0">> :> 2)

\* A lookup that would give the code of HTTP/1.1 for a missing key.
LookupAsOne(m, k) == IF k \in DOMAIN m THEN m[k] ELSE 1

\* A lookup in a Go map: the zero value for a missing key.
Lookup(m, k) == IF k \in DOMAIN m THEN m[k] ELSE 0

parseQuery(query) ==
    LET tokens == SplitN(query, 3) IN
    IF Len(tokens) # 3
    THEN [err |-> TRUE, method |-> <<>>, path |-> <<>>, version |-> 0]
    ELSE [err |-> FALSE, method |-> tokens[1], path |-> tokens[2],
          version |-> Lookup(versionToCode, tokens[3])]

\* time.Parse("02/Jan/2006:15:04:05 -0700", s) on the timestamp texts of
\* the model: the instant of a text in the layout, an error for any other.
Instants ==
    (<<"13/May/2020:20:15:43", SP, "+0000">> :> 1589400943)
    @@ (<<"13/May/2020:22:15:43", SP, "+0200">> :> 1589400943)
    @@ (<<"01/Jan/2020:00:00:00", SP, "+0000">> :> 1577836800)
    @@ (<<"02/May/2020:00:00:00", SP, "+0000">> :> 1588377600)
    @@ (<<"01/May/2020:23:59:59", SP, "+0000">> :> 1588377599)

\* With an error parseDate returns the zero time, which its caller drops.
parseDate(s) ==
    IF s \in DOMAIN Instants
    THEN [err |-> FALSE, val |-> Instants[s]]
    ELSE [err |-> TRUE, val |-> 0]

\* The body of the loop of expandRecords, without the date check.
ExpandNoDate(r0) ==
    LET c64 == ParseInt(r0.code)
        q == parseQuery(r0.req)
        when == parseDate(r0.when) IN
    IF c64.err \/ q.err THEN <<>>
    ELSE <<[Ip |-> r0.ip, When |-> when.val, Method |-> q.method,
            Path |-> q.path, Version |-> q.version, Code |-> c64.val,
            Referrer |-> r0.referrer, Agent |-> r0.agent]>>

\* The body of the loop of expandRecords: the records it sends for r0.
Expand(r0) ==
    LET c64 == ParseInt(r0.code)
        q == parseQuery(r0.req)
        when == parseDate(r0.when) IN
    IF c64.err THEN <<>>
    ELSE IF q.err THEN <<>>
    ELSE IF when.err THEN <<>>
    ELSE <<[Ip |-> r0.ip, When |-> when.val, Method |-> q.method,
            Path |-> q.path, Version |-> q.version, Code |-> c64.val,
            Referrer |-> r0.referrer, Agent |-> r0.agent]>>

\* ------------------------------------------------------------------ sieves
avoidedAddresses == {<<"127.0.0.1">>, <<"91.173.184.121">>, <<"92.158.80.82">>}

\* The runs of characters of the model in which regexp finds one of
\* avoidedAgents anywhere, and those it finds one of the anchored ones at
\* the start of.
AgentTagged == {"python-requests/2.1", "curl/7.68.0", "Googlebot/2.1"}
AgentPrefixed == {"Java/1.8.0", "http.rb/4.4.1"}

agentRegex(s) ==
    \/ \E i \in DOMAIN s : s[i] \in AgentTagged
    \/ s # <<>> /\ s[1] \in AgentPrefixed

\* The runs of characters of the model in which regexp finds
\* "51.38.234.78", where a dot stands for any character.
ReferrerTagged == {"51.38.234.78", "http://51.38.234.78:80/api/jsonws/invoke",
                   "http://51x38y234z78/"}

refRegex(s) == \E i \in DOMAIN s : s[i] \in ReferrerTagged

\* time.Now().AddDate(0, 0, -filteredDays).Unix(), days of 86400 seconds.
Oldest(cfg) == cfg.now - cfg.days * 86400

\* Sieves that would: add the avoided addresses to those an allow-list
\* rejects; ignore the agent flag; keep the agent "-"; reject the record
\* whose time is the oldest kept; let every referrer through.
addrSieveBoth(cfg, r) ==
    \/ cfg.addr # {} /\ r.Ip \notin cfg.addr
    \/ cfg.source /\ r.Ip \in avoidedAddresses

agentSieveAlways(cfg, r) == r.Agent = <<"-">> \/ agentRegex(r.Agent)

agentSieveNoDash(cfg, r) == IF cfg.agent THEN agentRegex(r.Agent) ELSE FALSE

dateSieveLoose(cfg, r) ==
    IF cfg.days > 0 THEN r.When <= Oldest(cfg) ELSE FALSE

referrerSieveOff(cfg, r) == FALSE

addrSieve(cfg, r) ==
    IF cfg.addr # {} THEN r.Ip \notin cfg.addr
    ELSE IF cfg.source THEN r.Ip \in avoidedAddresses
    ELSE FALSE

agentSieve(cfg, r) ==
    IF cfg.agent THEN r.Agent = <<"-">> \/ agentRegex(r.Agent) ELSE FALSE

dateSieve(cfg, r) ==
    IF cfg.days > 0 THEN r.When < Oldest(cfg) ELSE FALSE

referrerSieve(cfg, r) == refRegex(r.Referrer)

Sieve(name, cfg, r) ==
    CASE name = "date"     -> dateSieve(cfg, r)
      [] name = "addr"     -> addrSieve(cfg, r)
      [] name = "agent"    -> agentSieve(cfg, r)
      [] name = "referrer" -> referrerSieve(cfg, r)

\* The order in which main chains the filters.
MainOrder == <<"date", "addr", "agent", "referrer">>

\* ---------------------------------------------------------------- pipeline
\* make(chan ..., 64) for channels 0 (raw records) and 1 (records), and
\* make(chan Record, 32) for channels 2..5 (the filters); main reads 5.
Cap(k) == IF k <= 1 THEN 2 * QueueCap ELSE QueueCap

\* A channel that would deliver the last record sent first.
SendFront(q, it) == <<it>> \o q

\* A channel that would keep the last record sent in place of the one
\* before it.
SendOver(q, it) ==
    IF q = <<>> THEN <<it>> ELSE [q EXCEPT ![Len(q)] = it]

\* out <- r
Send(q, it) == Append(q, it)

\* A loop that would end as soon as the channel is empty.
DrainedEarly(q, c) == q = <<>>

\* for r := range in: the loop ends when the channel is closed and empty.
Drained(q, c) == q = <<>> /\ c

\* A return that would leave the channel open.
CloseNot(c, k) == c

\* defer close(out)
CloseOut(c, k) == [c EXCEPT ![k] = TRUE]

\* A filter that would forward what its sieve rejects.
ForwardRejected(ko, it) == IF ko THEN <<it>> ELSE <<>>

\* A filter that would forward a record without its referrer.
ForwardChanged(ko, it) ==
    IF ~ko THEN <<[it EXCEPT !.rec.Referrer = <<>>]>> ELSE <<>>

\* if !ko(r) { out <- r }: what a filter forwards of what it received.
Forward(ko, it) == IF ~ko THEN <<it>> ELSE <<>>

\* ------------------------------------------------------------- sample text
Dash == <<"-">>
IpA == <<"35.247.12.10">>
IpB == <<"195.54.160.121">>
IpLocal == <<"127.0.0.1">>
WhenNew == <<"13/May/2020:20:15:43", SP, "+0000">>
WhenOld == <<"01/Jan/2020:00:00:00", SP, "+0000">>
WhenBad == <<"13/05/2020", SP, "20:15:43">>
\* Thirty days before 1 June 2020 to the second, and one second earlier.
WhenEdge == <<"02/May/2020:00:00:00", SP, "+0000">>
WhenBefore == <<"01/May/2020:23:59:59", SP, "+0000">>
ReqGet == <<"GET", SP, "/", SP, "HTTP/1.1">>
ReqShort == <<"GET", SP, "/">>
AgentMoz == <<"Mozilla/5.0", SP, "Chrome/78.0">>
AgentBot == <<"python-requests/2.1">>
RefBad == <<"http://51.38.234.78:80/api/jsonws/invoke">>

RECURSIVE JoinFields(_, _)
JoinFields(f, i) ==
    IF i > Len(f) THEN <<>>
    ELSE (IF i = 1 THEN <<>> ELSE <<SP>>)
         \o Delimit(LogFormat[i], f[i]) \o JoinFields(f, i + 1)

\* A line of the access log.
LogLine(ip, when, req, code, referrer, agent) ==
    JoinFields(<<ip, Dash, Dash, when, req, code, <<"0">>, referrer, agent>>, 1)
    \o <<NL>>

LineOk == LogLine(IpA, WhenNew, ReqGet, <<"301">>, Dash, AgentMoz)
LineOld == LogLine(IpA, WhenOld, ReqGet, <<"200">>, Dash, AgentMoz)
LineLocal == LogLine(IpLocal, WhenNew, ReqGet, <<"200">>, Dash, AgentMoz)
LineBot == LogLine(IpB, WhenNew, ReqGet, <<"200">>, Dash, AgentBot)
LineRef == LogLine(IpB, WhenNew, ReqGet, <<"200">>, RefBad, AgentMoz)
LineEdge == LogLine(IpA, WhenEdge, ReqGet, <<"200">>, Dash, AgentMoz)
LineBefore == LogLine(IpA, WhenBefore, ReqGet, <<"200">>, Dash, AgentMoz)
LineDash == LogLine(IpA, WhenNew, ReqGet, <<"200">>, Dash, Dash)
LineBadCode == LogLine(IpA, WhenNew, ReqGet, Dash, Dash, AgentMoz)
LineBadReq == LogLine(IpA, WhenNew, ReqShort, <<"200">>, Dash, AgentMoz)
LineBadDate == LogLine(IpA, WhenBad, ReqGet, <<"200">>, Dash, AgentMoz)
\* Eight fields.
LineShort == <<"35.247.12.10", SP, "-", SP, "-", SP, LB>> \o WhenNew
             \o <<RB, SP, QT>> \o ReqGet \o <<QT, SP, "301", SP, "0", SP,
                  QT, "-", QT, NL>>
\* LineOk cut inside its last field.
LineCut == SubSeq(LineOk, 1, Len(LineOk) - 4)

\* No flag given; every filter asked for, thirty days before 1 June 2020.
CfgNone == [agent |-> FALSE, source |-> FALSE, addr |-> {}, days |-> 0,
            now |-> 1590969600]
CfgAll == [agent |-> TRUE, source |-> TRUE, addr |-> {}, days |-> 30,
           now |-> 1590969600]
CfgOnly == [agent |-> TRUE, source |-> TRUE, addr |-> {IpA, IpB}, days |-> 30,
            now |-> 1590969600]
\* An allow-list that names an avoided address, with the source flag and a
\* negative window; an allow-list alone.
CfgAllow == [agent |-> FALSE, source |-> TRUE, addr |-> {IpLocal},
             days |-> -1, now |-> 1590969600]
CfgPick == [agent |-> FALSE, source |-> FALSE, addr |-> {IpB}, days |-> 0,
            now |-> 1590969600]

\* ------------------------------------------------------------------- state
VARIABLES
    step, token, line,  \* parseRecords: the scanner's locals
    pcScan,             \* parseRecords: "read", "send", "closed" or "fatal"
    got,                \* the records sent while reading the line described
    eol,                \* that line was ended by a newline
    odd,                \* its irregularities (see MaxOdd)
    wf,                 \* it is made of delimited fields only
    want,               \* their contents, as written
    open,               \* the last of them is bare and not yet separated
    fmt,                \* they are delimited the way the log format does
    cur,                \* the tokens the scanner closed on that line
    input,              \* the lines of the input
    ending,             \* how the reads end after them: "eof" or "error"
    lineno,             \* how many of them parseRecords has read
    pend,               \* parseRecords: the records it is sending
    after,              \* parseRecords: where it goes once they are sent
    cfg,                \* main: the flags
    order,              \* main: the sieves of the filters 2..5, in order
    chan,               \* the content of channels 0..5
    closed,             \* the channels that are closed
    closes,             \* how many times each channel was closed
    pc,                 \* stages 1..5: "recv", "send" or "done"
    hold,               \* stages 1..5: the record a stage is sending
    rendered,           \* main: the records printed
    status,             \* the process: "run", "exit0" or "exit1"
    taken,              \* every raw record expandRecords received
    emitted,            \* every record expandRecords sent
    received,           \* every record each filter received
    forwarded,          \* every record each filter sent
    environ,            \* main: the text of COLUMNS in the environment
    argv,               \* main: the arguments --human and --columns
    nbColumns,          \* main: the total width of a line
    pcMain,             \* main: "getenv", "clamp", "flags", "wired", "exit2"
    format              \* main: the precision of the agent, once computed

scanVars == <<step, token, line, pcScan>>
lineVars == <<got, eol, odd, wf, want, open, fmt, cur>>
startVars == <<environ, argv, nbColumns, pcMain, format>>
pipeVars == <<input, ending, lineno, pend, after, cfg, order, chan, closed,
              closes, pc, hold, rendered, status, taken, emitted,
              received, forwarded, startVars>>
vars == <<scanVars, lineVars, pipeVars>>

Chans == 0..5
Stages == 1..5
Filters == 2..5

\* main past pflag.Parse, run without COLUMNS, --columns and --human.
Parsed ==
    /\ environ = <<>>
    /\ argv = [human |-> FALSE, columns |-> <<>>]
    /\ nbColumns = DefaultColumns
    /\ pcMain = "wired"
    /\ format = <<>>

\* The goroutines and the channels before main starts any.
Idle(in, e, c, o) ==
    /\ input = in
    /\ ending = e
    /\ lineno = 0
    /\ pend = <<>>
    /\ after = "read"
    /\ cfg = c
    /\ order = o
    /\ chan = [k \in Chans |-> <<>>]
    /\ closed = [k \in Chans |-> FALSE]
    /\ closes = [k \in Chans |-> 0]
    /\ pc = [k \in Stages |-> "recv"]
    /\ hold = [k \in Stages |-> <<>>]
    /\ rendered = <<>>
    /\ status = "run"
    /\ taken = <<>>
    /\ emitted = <<>>
    /\ received = [k \in Filters |-> <<>>]
    /\ forwarded = [k \in Filters |-> <<>>]

\* main before it starts a goroutine.
Wired(in, e, c, o) == Idle(in, e, c, o) /\ Parsed

\* parseRecords before its first read.
Fresh ==
    /\ step = ScanInit.step
    /\ token = ScanInit.token
    /\ line = ScanInit.line
    /\ pcScan = "read"
    /\ got = <<>>
    /\ eol = FALSE
    /\ odd = 0
    /\ wf = TRUE
    /\ want = <<>>
    /\ open = FALSE
    /\ fmt = TRUE
    /\ cur = <<>>

Scanner == [step |-> step, token |-> token, line |-> line,
            out |-> <<>>, ended |-> <<>>]

\* ------------------------------------------------- the stream of one scan
SeqsUpTo(S, n) == UNION {[1..k -> S] : k \in 0..n}

\* The contents a field of each kind can have and still be delimited.
Contents(kind) ==
    LET all == SeqsUpTo(Bytes \ {NL}, MaxOdd + 1) IN
    CASE kind = Bare ->
           {c \in all : /\ c # <<>>
                        /\ c[1] \notin {LB, QT}
                        /\ \A i \in DOMAIN c : c[i] # SP}
      [] kind = Bracket -> {c \in all : \A i \in DOMAIN c : c[i] # RB}
      [] kind = Quote   -> {c \in all : \A i \in DOMAIN c : c[i] # QT}

OddTok(t) ==
    IF t = <<>> THEN 1
    ELSE (Len(t) - 1) + Cardinality({i \in DOMAIN t : t[i] # Plain})

\* The contents of a field of each kind with at most n irregularities.
ContentsWithin ==
    [kind \in Kinds, n \in 0..MaxOdd |->
        {c \in Contents(kind) : OddTok(c) <= n}]

OddPartial(t) == IF t = <<>> THEN 0 ELSE OddTok(t)

RECURSIVE OddAll(_)
OddAll(ts) == IF ts = <<>> THEN 0 ELSE OddTok(Head(ts)) + OddAll(Tail(ts))

\* The irregularities that taking the scanner from sc to res has read.
Cost(sc, res) == OddAll(res.ended) + OddPartial(res.token) - OddPartial(sc.token)

\* The line being read: a new one once the last was ended by a newline.
NowGot == IF eol THEN <<>> ELSE got
NowOdd == IF eol THEN 0 ELSE odd
NowWf == eol \/ wf
NowWant == IF eol THEN <<>> ELSE want
NowOpen == ~eol /\ open
NowFmt == eol \/ fmt
NowCur == IF eol THEN <<>> ELSE cur

InitScan == Fresh /\ Wired(<<>>, "eof", CfgNone, MainOrder)

\* The scanner goes to res; the line described stays made of delimited
\* fields (w), whose contents are now f, the last one bare (o), in the log
\* format (m).
Scanned(res, w, f, o, m) ==
    LET c == NowOdd + Cost(Scanner, res)
        t == NowCur \o res.ended IN
    /\ Len(t) <= MaxFields
    /\ c <= MaxOdd
    /\ step' = res.step
    /\ token' = res.token
    /\ line' = res.line
    /\ got' = NowGot \o res.out
    /\ odd' = c
    /\ cur' = t
    /\ wf' = w
    /\ want' = IF w THEN f ELSE <<>>
    /\ open' = (w /\ o)
    /\ fmt' = (w /\ m)

\* The loop reads one character that is no newline: a space, the opening
\* of a quote or of a bracket, or a character inside one left open (what
\* else a stream can hold is a delimited field, read by ReadField).
ReadRune(b) ==
    /\ pcScan = "read"
    /\ b # NL
    /\ CASE step = stepBegin   -> b \in {SP, LB, QT}
         [] step = stepBare    -> b = SP
         [] step = stepQuote   -> b # QT
         [] step = stepBracket -> b # RB
    /\ LET res == ScanRune(Scanner, b) IN
       Scanned(res, NowWf /\ b = SP, NowWant, FALSE, NowFmt)
    /\ eol' = FALSE
    /\ UNCHANGED <<pcScan, pipeVars>>

\* The loop reads the characters of one delimited field, and first the
\* space that separates it from the field before it.
ReadField(kind, content) ==
    /\ pcScan = "read"
    /\ NowWf
    /\ content \in ContentsWithin[kind, MaxOdd - NowOdd]
    /\ LET sep == IF NowWant = <<>> THEN <<>> ELSE <<SP>>
           res == ScanRunes(Scanner, sep \o Delimit(kind, content)) IN
       Scanned(res, TRUE, Append(NowWant, content), kind = Bare,
               /\ NowFmt
               /\ Len(NowWant) < Len(LogFormat)
               /\ kind = LogFormat[Len(NowWant) + 1])
    /\ eol' = FALSE
    /\ UNCHANGED <<pcScan, pipeVars>>

\* The loop reads a newline.
ReadNewline ==
    /\ pcScan = "read"
    /\ LET res == ScanRune(Scanner, NL) IN
       Scanned(res, NowWf, NowWant, NowOpen, NowFmt)
    /\ eol' = TRUE
    /\ UNCHANGED <<pcScan, pipeVars>>

\* ReadRune fails: with io.EOF the goroutine returns, with any other error
\* Logger.Fatal ends the process.
ReadFails(how) ==
    /\ pcScan = "read"
    /\ LET res == ScanStop(Scanner) IN
       Scanned(res, NowWf, NowWant, NowOpen, NowFmt)
    /\ eol' = FALSE
    /\ pcScan' = IF how = "eof" THEN "closed" ELSE "fatal"
    /\ UNCHANGED pipeVars

NextScan ==
    \/ \E b \in Bytes : ReadRune(b)
    \/ \E kind \in Kinds : \E content \in ContentsWithin[kind, MaxOdd] :
         ReadField(kind, content)
    \/ ReadNewline
    \/ ReadFails("eof")
    \/ ReadFails("error")

SpecScan == InitScan /\ [][NextScan]_vars

\* ------------------------------------------------------- claims: scanner
\* The line described was ended, by a newline or by the end of the stream.
LineEnded == eol \/ pcScan = "closed"

\* A field as the reader delivers it: an invalid byte becomes U+FFFD.
AsRead(c) == [j \in DOMAIN c |-> IF c[j] = Invalid THEN Replacement ELSE c[j]]
FieldsAsRead(f) == [i \in DOMAIN f |-> AsRead(f[i])]
ValidText(f) == \A i \in DOMAIN f : \A j \in DOMAIN f[i] : f[i][j] # Invalid

\* C1 as stated: every line made of exactly nine correctly delimited
\* fields gives exactly one record, whose fields are the contents written.
C1_EveryLine ==
    (LineEnded /\ wf /\ Len(want) = 9) => got = <<RawRecord(want)>>

\* C1, amended: every line of valid UTF-8 made of exactly nine correctly
\* delimited fields gives exactly one record, whose fields are the contents
\* written; an invalid byte of a field is delivered as U+FFFD.
C1_RoundTrip ==
    (LineEnded /\ wf /\ Len(want) = 9) =>
        /\ got = <<RawRecord(FieldsAsRead(want))>>
        /\ ValidText(want) => got = <<RawRecord(want)>>

\* A line in the log format, the three conventions in use, a space inside
\* a delimited field, has been ended and has given its record.
C1_Witness ==
    /\ LineEnded /\ wf /\ fmt /\ Len(want) = 9
    /\ \E i \in DOMAIN want : \E j \in DOMAIN want[i] : want[i][j] = SP
    /\ got = <<RawRecord(want)>>

\* C2: a record is sent only at the end of a line on which the scanner
\* closed exactly nine tokens, and holds those tokens; a line of fewer or
\* more gives none; after every newline the accumulator is empty.
C2_NineOrNothing ==
    /\ got # <<>> => /\ LineEnded \/ pcScan = "fatal"
                     /\ Len(cur) = 9
                     /\ got = <<RawRecord(cur)>>
    /\ eol => line = <<>>

\* A line of ten fields was ended by a newline and gave no record.
C2_Witness == eol /\ Len(cur) = 10 /\ got = <<>> /\ line = <<>>

\* C3 as stated: wherever the stream ends without a newline, the records
\* sent are those sent had a newline come first.
C3_EofAsNewline ==
    (pcScan = "read" /\ ~eol) =>
        ScanStop(Scanner).out = ScanStop(ScanRune(Scanner, NL)).out

\* C8 as stated: the line being read when a read fails is never sent.
C8_NoPartialRecord == pcScan = "fatal" => got = <<>>

\* The characters of a token, and those of the fields of a record.
Runes(t) == {t[i] : i \in DOMAIN t}
FieldRunes(rec) ==
    UNION {Runes(rec[f]) :
              f \in {"ip", "when", "req", "code", "referrer", "agent"}}

\* The tokens the scanner closes when it goes to res: no newline in any,
\* and a bare one, closed in state Bare, neither empty nor holding a space.
ClosedRight(res) ==
    \A i \in DOMAIN res.ended :
        /\ NL \notin Runes(res.ended[i])
        /\ step = stepBare => /\ res.ended[i] # <<>>
                               /\ SP \notin Runes(res.ended[i])

\* C22: in state Begin the token buffer is empty; a newline, in whatever
\* state it is read, leaves the scanner in state Begin with an empty token
\* buffer and an empty accumulator, as it is before the first line, also
\* when a quote or a bracket was left open; no token, no field accumulated
\* and no field of a record sent holds a newline, and, as long as the loop
\* runs, a bare field is neither empty nor holds a space.
C22_LinesIndependent ==
    /\ step = stepBegin => token = <<>>
    /\ (pcScan = "read" /\ step = stepBare) =>
           token # <<>> /\ SP \notin Runes(token)
    /\ eol => /\ step = ScanInit.step /\ step = stepBegin
              /\ token = ScanInit.token /\ token = <<>>
              /\ line = ScanInit.line /\ line = <<>>
    /\ LET res == ScanRune(Scanner, NL) IN
         res.step = stepBegin /\ res.token = <<>> /\ res.line = <<>>
    /\ NL \notin Runes(token)
    /\ \A i \in DOMAIN line : NL \notin Runes(line[i])
    /\ \A i \in DOMAIN cur : NL \notin Runes(cur[i])
    /\ \A i \in DOMAIN got : NL \notin FieldRunes(got[i])
    /\ pcScan = "read" => /\ \A b \in Bytes : ClosedRight(ScanRune(Scanner, b))
                          /\ ClosedRight(ScanStop(Scanner))

\* After a first field, a newline was read inside a quote or a bracket left
\* open on a space: both fields were closed and the scanner is in state
\* Begin with nothing kept.
C22_Witness ==
    /\ eol /\ ~wf
    /\ Len(cur) = 2 /\ cur[1] = <<Plain>> /\ cur[2] = <<SP>>
    /\ step = stepBegin /\ token = <<>> /\ line = <<>>


\* ------------------------------------------------------------ the pipeline
\* A record in flight with the number of the line it comes from.
Tagged(recs, n) == [i \in DOMAIN recs |-> [rec |-> recs[i], ln |-> n]]
Recs(items) == [i \in DOMAIN items |-> items[i].rec]
Lns(items) == [i \in DOMAIN items |-> items[i].ln]

scanLocals == <<step, token, line>>
mainVars == <<input, ending, cfg, order, startVars>>

\* parseRecords: the iterations of the loop that read one line.
ScanLine ==
    /\ status = "run"
    /\ pcScan = "read"
    /\ lineno < Len(input)
    /\ LET sc == ScanRunes(Scanner, input[lineno + 1]) IN
        /\ step' = sc.step
        /\ token' = sc.token
        /\ line' = sc.line
        /\ pend' = Tagged(sc.out, lineno + 1)
        /\ pcScan' = IF sc.out = <<>> THEN "read" ELSE "send"
    /\ lineno' = lineno + 1
    /\ after' = "read"
    /\ UNCHANGED <<lineVars, mainVars, chan, closed, closes, pc, hold,
                   rendered, status, taken, emitted,
                   received, forwarded>>

\* parseRecords: the iteration whose ReadRune fails.
ScanEnd ==
    /\ status = "run"
    /\ pcScan = "read"
    /\ lineno = Len(input)
    /\ LET sc == ScanStop(Scanner)
           to == IF ending = "eof" THEN "close" ELSE "fatal" IN
        /\ step' = sc.step
        /\ token' = sc.token
        /\ line' = sc.line
        /\ pend' = Tagged(sc.out, lineno)
        /\ after' = to
        /\ pcScan' = IF sc.out = <<>> THEN to ELSE "send"
    /\ UNCHANGED <<lineVars, mainVars, lineno, chan, closed, closes, pc, hold,
                   rendered, status, taken, emitted,
                   received, forwarded>>

\* parseRecords: out <- RawRecord{...} in _eol, which waits for room.
ScanSend ==
    /\ status = "run"
    /\ pcScan = "send"
    /\ Len(chan[0]) < Cap(0)
    /\ chan' = [chan EXCEPT ![0] = Send(@, Head(pend))]
    /\ pend' = Tail(pend)
    /\ pcScan' = IF Tail(pend) = <<>> THEN after ELSE "send"
    /\ UNCHANGED <<scanLocals, lineVars, mainVars, lineno, after, closed,
                   closes, pc, hold, rendered, status, taken, emitted,
                   received, forwarded>>

\* parseRecords: return on io.EOF, which runs the deferred close(out).
ScanReturn ==
    /\ status = "run"
    /\ pcScan = "close"
    /\ closed' = CloseOut(closed, 0)
    /\ closes' = [closes EXCEPT ![0] = @ + 1]
    /\ pcScan' = "closed"
    /\ UNCHANGED <<scanLocals, lineVars, mainVars, lineno, pend, after, chan,
                   pc, hold, rendered, status, taken, emitted,
                   received, forwarded>>

\* parseRecords: Logger.Fatal()...Msg() on any other error; zerolog ends
\* the process with os.Exit(1), and no deferred call runs.
ScanFatal ==
    /\ status = "run"
    /\ pcScan = "fatal"
    /\ status' = "exit1"
    /\ UNCHANGED <<scanVars, lineVars, mainVars, lineno, pend, after, chan,
                   closed, closes, pc, hold, rendered, taken, emitted,
                   received, forwarded>>

\* expandRecords: for r0 := range src, and the body of the loop up to the
\* send.
ExpandRecv ==
    /\ status = "run"
    /\ pc[1] = "recv"
    /\ chan[0] # <<>>
    /\ LET it == Head(chan[0])
           e == Expand(it.rec) IN
        /\ taken' = Append(taken, it)
        /\ hold' = [hold EXCEPT ![1] = Tagged(e, it.ln)]
        /\ pc' = [pc EXCEPT ![1] = IF e = <<>> THEN "recv" ELSE "send"]
    /\ chan' = [chan EXCEPT ![0] = Tail(@)]
    /\ UNCHANGED <<scanVars, lineVars, mainVars, lineno, pend, after, closed,
                   closes, rendered, status, emitted,
                   received, forwarded>>

\* expandRecords: out <- Record{...}
ExpandSend ==
    /\ status = "run"
    /\ pc[1] = "send"
    /\ Len(chan[1]) < Cap(1)
    /\ chan' = [chan EXCEPT ![1] = Send(@, hold[1][1])]
    /\ emitted' = Append(emitted, hold[1][1])
    /\ hold' = [hold EXCEPT ![1] = <<>>]
    /\ pc' = [pc EXCEPT ![1] = "recv"]
    /\ UNCHANGED <<scanVars, lineVars, mainVars, lineno, pend, after, closed,
                   closes, rendered, status, taken,
                   received, forwarded>>

\* expandRecords: the end of the range loop and the deferred close(out).
ExpandClose ==
    /\ status = "run"
    /\ pc[1] = "recv"
    /\ Drained(chan[0], closed[0])
    /\ closed' = CloseOut(closed, 1)
    /\ closes' = [closes EXCEPT ![1] = @ + 1]
    /\ pc' = [pc EXCEPT ![1] = "done"]
    /\ UNCHANGED <<scanVars, lineVars, mainVars, lineno, pend, after, chan,
                   hold, rendered, status, taken, emitted,
                   received, forwarded>>

\* filter, stage k reading channel k - 1: for r := range in, and the test
\* of ko(r).
FilterRecv(k) ==
    /\ status = "run"
    /\ pc[k] = "recv"
    /\ chan[k - 1] # <<>>
    /\ LET it == Head(chan[k - 1])
           f == Forward(Sieve(order[k - 1], cfg, it.rec), it) IN
        /\ hold' = [hold EXCEPT ![k] = f]
        /\ pc' = [pc EXCEPT ![k] = IF f = <<>> THEN "recv" ELSE "send"]
    /\ received' = [received EXCEPT ![k] = Append(@, Head(chan[k - 1]))]
    /\ chan' = [chan EXCEPT ![k - 1] = Tail(@)]
    /\ UNCHANGED <<scanVars, lineVars, mainVars, lineno, pend, after, closed,
                   closes, rendered, status, taken, emitted,
                   forwarded>>

\* filter: out <- r
FilterSend(k) ==
    /\ status = "run"
    /\ pc[k] = "send"
    /\ Len(chan[k]) < Cap(k)
    /\ chan' = [chan EXCEPT ![k] = Send(@, hold[k][1])]
    /\ forwarded' = [forwarded EXCEPT ![k] = Append(@, hold[k][1])]
    /\ hold' = [hold EXCEPT ![k] = <<>>]
    /\ pc' = [pc EXCEPT ![k] = "recv"]
    /\ UNCHANGED <<scanVars, lineVars, mainVars, lineno, pend, after, closed,
                   closes, rendered, status, taken, emitted,
                   received>>

\* filter: the end of the range loop and the deferred close(out).
FilterClose(k) ==
    /\ status = "run"
    /\ pc[k] = "recv"
    /\ Drained(chan[k - 1], closed[k - 1])
    /\ closed' = CloseOut(closed, k)
    /\ closes' = [closes EXCEPT ![k] = @ + 1]
    /\ pc' = [pc EXCEPT ![k] = "done"]
    /\ UNCHANGED <<scanVars, lineVars, mainVars, lineno, pend, after, chan,
                   hold, rendered, status, taken, emitted,
                   received, forwarded>>

\* main: one iteration of for r := range r1, which prints r.
Render ==
    /\ status = "run"
    /\ chan[5] # <<>>
    /\ rendered' = Append(rendered, Head(chan[5]))
    /\ chan' = [chan EXCEPT ![5] = Tail(@)]
    /\ UNCHANGED <<scanVars, lineVars, mainVars, lineno, pend, after, closed,
                   closes, pc, hold, status, taken, emitted,
                   received, forwarded>>

\* main: the end of the range loop; main returns and the process ends.
MainReturn ==
    /\ status = "run"
    /\ Drained(chan[5], closed[5])
    /\ status' = "exit0"
    /\ UNCHANGED <<scanVars, lineVars, mainVars, lineno, pend, after, chan,
                   closed, closes, pc, hold, rendered, taken, emitted,
                   received, forwarded>>

\* The inputs: lines that reach the filters or stop at the scanner, the
\* last of which may be cut before its end, or lines that reach the
\* normalizer, which refuses some.
FlowPool == {LineOk, LineBot, LineShort}
NormPool == {LineOk, LineBadCode, LineBadReq, LineBadDate}
FlowInputs ==
    {in \in SeqsUpTo(FlowPool \cup {LineCut}, MaxInput) :
        \A i \in 1..(Len(in) - 1) : in[i] # LineCut}
Inputs == FlowInputs \cup SeqsUpTo(NormPool, MaxInput)

Init == Fresh /\ \E in \in Inputs, e \in {"eof", "error"} :
                    Wired(in, e, CfgAll, MainOrder)

ScanSteps == ScanLine \/ ScanEnd \/ ScanSend \/ ScanReturn \/ ScanFatal
ExpandSteps == ExpandRecv \/ ExpandSend \/ ExpandClose
FilterSteps ==
    \E k \in Filters : FilterRecv(k) \/ FilterSend(k) \/ FilterClose(k)
MainSteps == Render \/ MainReturn

Next == ScanSteps \/ ExpandSteps \/ FilterSteps \/ MainSteps

Spec == Init /\ [][Next]_vars

\* The scheduler does not stop while a goroutine can run.
InitLive == Fresh /\ \E in \in FlowInputs, e \in {"eof", "error"} :
                        Wired(in, e, CfgAll, MainOrder)

SpecLive == InitLive /\ [][Next]_vars /\ WF_vars(Next)

\* ------------------------------------------------- the filters in any order
\* parseRecords on a whole input, up to the test of the error of the read
\* that fails.
RECURSIVE ScanText(_, _)
ScanText(sc, in) ==
    IF in = <<>> THEN ScanStop(sc)
    ELSE CHOOSE res \in {ScanText(nx, Tail(in)) :
                            nx \in {ScanRunes(sc, Head(in))}} : TRUE

\* What parseRecords sends for a whole input.
RawOf(in) == ScanText(ScanInit, in).out

\* What expandRecords sends for a sequence of raw records.
RECURSIVE ExpandAll(_)
ExpandAll(raws) ==
    IF raws = <<>> THEN <<>> ELSE Expand(Head(raws)) \o ExpandAll(Tail(raws))

SieveNames == {MainOrder[i] : i \in DOMAIN MainOrder}
Perms == {o \in [DOMAIN MainOrder -> SieveNames] :
             \A i, j \in DOMAIN o : o[i] = o[j] => i = j}

\* Lines that every conversion accepts: one that passes every sieve and one
\* for each sieve to reject.
PermPool == {LineOk, LineOld, LineLocal, LineBot, LineRef}

\* main with the filters chained in the order o, at the time parseRecords
\* and expandRecords have returned and no filter has run yet: the records
\* wait in channel 1, which has room for them.
Loaded(in, c, o) ==
    LET raws == [i \in DOMAIN in |-> [rec |-> RawOf(<<in[i]>>)[1], ln |-> i]]
        recs == [i \in DOMAIN in |->
                    [rec |-> Expand(raws[i].rec)[1], ln |-> i]] IN
    /\ Len(in) <= Cap(1)
    /\ step = stepBegin
    /\ token = <<>>
    /\ line = <<>>
    /\ pcScan = "closed"
    /\ got = <<>>
    /\ eol = FALSE
    /\ odd = 0
    /\ wf = TRUE
    /\ want = <<>>
    /\ open = FALSE
    /\ fmt = TRUE
    /\ cur = <<>>
    /\ input = in
    /\ ending = "eof"
    /\ lineno = Len(in)
    /\ pend = <<>>
    /\ after = "close"
    /\ cfg = c
    /\ order = o
    /\ chan = [k \in Chans |-> IF k = 1 THEN recs ELSE <<>>]
    /\ closed = [k \in Chans |-> k <= 1]
    /\ closes = [k \in Chans |-> IF k <= 1 THEN 1 ELSE 0]
    /\ pc = [k \in Stages |-> IF k = 1 THEN "done" ELSE "recv"]
    /\ hold = [k \in Stages |-> <<>>]
    /\ rendered = <<>>
    /\ status = "run"
    /\ taken = raws
    /\ emitted = recs
    /\ received = [k \in Filters |-> <<>>]
    /\ forwarded = [k \in Filters |-> <<>>]
    /\ Parsed

InitPerm ==
    \E in \in SeqsUpTo(PermPool, QueueCap + 1), c \in {CfgNone, CfgAll},
       o \in Perms : Loaded(in, c, o)

NextPerm == FilterSteps \/ MainSteps

SpecPerm == InitPerm /\ [][NextPerm]_vars

\* ------------------------------------------------------ claims: pipeline
\* No sieve rejects r.
Keep(c, r) == \A name \in SieveNames : ~Sieve(name, c, r)

\* The records of rs that the filters let through, chained in the order o.
RECURSIVE Chain(_, _, _)
Chain(o, c, rs) ==
    IF o = <<>> THEN rs
    ELSE LET Pass(r) == ~Sieve(Head(o), c, r) IN
         Chain(Tail(o), c, SelectSeq(rs, Pass))

\* What main prints for an input: the records scanned, normalized without
\* error and rejected by no sieve.
Delivered(in, c) ==
    LET Pass(r) == Keep(c, r) IN SelectSeq(ExpandAll(RawOf(in)), Pass)

RECURSIVE Increasing(_)
Increasing(ns) ==
    \/ Len(ns) <= 1
    \/ ns[1] < ns[2] /\ Increasing(Tail(ns))

AllClosed == \A k \in Chans : closed[k] /\ chan[k] = <<>>

\* C4: with the filters chained in any permutation of their order, main
\* has printed, when it returns, the records that the chain in the order of
\* main lets through, in the same sequence.
C4_FiltersCommute ==
    status = "exit0" =>
        /\ Recs(rendered) = Chain(MainOrder, cfg, Recs(emitted))
        /\ Recs(rendered) = Chain(order, cfg, Recs(emitted))

\* C4, witness: main returned after filters chained with the first sieve
\* of main last printed one record of two, the last filter having rejected
\* the other.
C4_Witness ==
    /\ status = "exit0"
    /\ order[4] = MainOrder[1]
    /\ Len(emitted) = 2
    /\ Len(rendered) = 1
    /\ \E j \in DOMAIN emitted :
          /\ Sieve(order[4], cfg, emitted[j].rec)
          /\ \A i \in 1..3 : ~Sieve(order[i], cfg, emitted[j].rec)

\* The records in flight, the oldest first: those printed, then those of
\* each channel and of the stage that feeds it, down to parseRecords.
InFlight ==
    rendered \o chan[5] \o hold[5] \o chan[4] \o hold[4] \o chan[3]
    \o hold[3] \o chan[2] \o hold[2] \o chan[1] \o hold[1] \o chan[0] \o pend

\* C5: at every moment of every interleaving the records printed, then
\* those waiting in each channel and stage from the last filter back to
\* the scanner, come from lines of increasing numbers: no stage lets a
\* record overtake one it received earlier.
C5_Fifo == Increasing(Lns(InFlight))

\* C5, witness: a record was printed while records of later lines wait
\* in a channel and in the scanner.
C5_Witness ==
    /\ Len(rendered) >= 1
    /\ \E k \in Chans : chan[k] # <<>>
    /\ pend # <<>>


\* main returned, every channel is closed and empty, and what was printed
\* is what the input delivers.
Finished ==
    /\ status = "exit0"
    /\ AllClosed
    /\ \A k \in Stages : hold[k] = <<>>
    /\ Recs(rendered) = Delivered(input, cfg)

\* C6: when the reads end with io.EOF and no goroutine that can run is
\* left waiting for ever, main eventually returns with every channel
\* closed and empty and with every record printed that was scanned,
\* normalized without error and rejected by no sieve.
C6_Terminates == (ending = "eof") ~> Finished

\* C6, witness: main returned after printing more records than any channel
\* holds.
C6_Witness ==
    /\ Finished
    /\ ending = "eof"
    /\ \A k \in Chans : Len(rendered) > Cap(k)

\* C7: a channel is closed at most once; when the channel a stage writes is
\* closed, the channel it reads is closed and empty, the stage holds no
\* record and has returned.
C7_CloseAfterDrain ==
    \A k \in Chans :
        /\ closes[k] <= 1
        /\ closed[k] <=> closes[k] = 1
        /\ (k \in Stages /\ closed[k]) =>
              /\ closed[k - 1]
              /\ chan[k - 1] = <<>>
              /\ hold[k] = <<>>
              /\ pc[k] = "done"

\* C7, witness: expandRecords closed its channel, which still holds a
\* record, and the first filter has not closed its own.
C7_Witness ==
    /\ closed[1]
    /\ chan[1] # <<>>
    /\ ~closed[2]
    /\ Len(taken) >= 2

\* C9: when the process has ended on a read error, every channel is closed
\* and empty and every record sent by parseRecords that is normalized
\* without error and rejected by no sieve was printed.
C9_DrainsAfterFatal ==
    status = "exit1" =>
        /\ AllClosed
        /\ Recs(rendered) = Delivered(input, cfg)

\* The three conversions of expandRecords succeed on r0.
Converts(r0) ==
    /\ ~ParseInt(r0.code).err
    /\ ~parseQuery(r0.req).err
    /\ ~parseDate(r0.when).err

\* C10: the records expandRecords has sent or is sending are, in order, one
\* for each raw record received whose status, request and timestamp all
\* convert, and none for any other.
C10_EmitsIffConverts ==
    LET Ok(t) == Converts(t.rec) IN
    /\ Lns(emitted \o hold[1]) = Lns(SelectSeq(taken, Ok))
    /\ Len(hold[1]) <= 1

\* C10, witness: expandRecords received a raw record whose timestamp does
\* not convert, then one whose request does not, then one it sent a record
\* for.
C10_Witness ==
    /\ Len(taken) = 3
    /\ parseDate(taken[1].rec.when).err
    /\ parseQuery(taken[2].rec.req).err
    /\ Converts(taken[3].rec)
    /\ Lns(emitted) = <<3>>


\* ------------------------------------------------------ the normalizer alone
\* The pieces of a request: empty, a method, a path, the four protocol
\* texts of versionToCode and one that is not there.
ReqTokens == {<<>>, <<"GET">>, <<"/">>, <<"HTTP/0.9">>, <<"HTTP/1.0">>,
              <<"HTTP/1.1">>, <<"HTTP/2.0">>, <<"HTTP/3.0">>}

\* The pieces ws joined by single spaces.
RECURSIVE Words(_)
Words(ws) ==
    IF ws = <<>> THEN <<>>
    ELSE IF Len(ws) = 1 THEN ws[1]
    ELSE ws[1] \o <<SP>> \o Words(Tail(ws))

Requests == {Words(ws) : ws \in SeqsUpTo(ReqTokens, MaxTokens)}

\* main at the time parseRecords has returned after one line whose request
\* is req, and expandRecords has not run yet.
InitNorm ==
    \E req \in Requests :
        LET in == <<LogLine(IpA, WhenNew, req, <<"200">>, Dash, AgentMoz)>> IN
        /\ Fresh
        /\ input = in
        /\ ending = "eof"
        /\ lineno = 1
        /\ pend = <<>>
        /\ after = "close"
        /\ cfg = CfgNone
        /\ order = MainOrder
        /\ chan = [k \in Chans |-> IF k = 0 THEN Tagged(RawOf(in), 1) ELSE <<>>]
        /\ closed = [k \in Chans |-> k = 0]
        /\ closes = [k \in Chans |-> IF k = 0 THEN 1 ELSE 0]
        /\ pc = [k \in Stages |-> "recv"]
        /\ hold = [k \in Stages |-> <<>>]
        /\ rendered = <<>>
        /\ status = "run"
        /\ taken = <<>>
        /\ emitted = <<>>
        /\ received = [k \in Filters |-> <<>>]
        /\ forwarded = [k \in Filters |-> <<>>]
        /\ Parsed

NextNorm == ExpandSteps

SpecNorm == InitNorm /\ [][NextNorm]_vars


\* ---------------------------------------------------- claims: normalizer
\* The records expandRecords has sent or is sending for the raw record t.
Produced(t) ==
    LET Same(e) == e.ln = t.ln IN SelectSeq(emitted \o hold[1], Same)

\* The places of the spaces of a text, and the place of its n-th space.
Spaces(s) == {i \in DOMAIN s : s[i] = SP}
SpaceAt(s, n) ==
    CHOOSE i \in Spaces(s) : Cardinality({j \in Spaces(s) : j < i}) = n - 1

\* The text before the first space, between the first two spaces and after
\* the second.
MethodText(s) == SubSeq(s, 1, SpaceAt(s, 1) - 1)
PathText(s) == SubSeq(s, SpaceAt(s, 1) + 1, SpaceAt(s, 2) - 1)
ProtocolText(s) == SubSeq(s, SpaceAt(s, 2) + 1, Len(s))

\* C11: a raw record whose request has a protocol text, whatever it is,
\* gives one record; its version is 1 for HTTP/1.1, 2 for HTTP/2.0 and 0
\* for HTTP/0.9, for HTTP/1.0 and for every text that is not in the table,
\* such as HTTP/3.0.
C11_UnknownVersion ==
    \A i \in DOMAIN taken :
        LET req == taken[i].rec.req
            out == Produced(taken[i]) IN
        Cardinality(Spaces(req)) >= 2 =>
            /\ Len(out) = 1
            /\ out[1].rec.Version =
                  IF ProtocolText(req) = <<"HTTP/1.1">> THEN 1
                  ELSE IF ProtocolText(req) = <<"HTTP/2.0">> THEN 2
                  ELSE 0

\* C11, witness: expandRecords sent a record of version 0 for the request
\* GET / HTTP/3.0.
C11_Witness ==
    /\ Len(taken) = 1
    /\ taken[1].rec.req = <<"GET", SP, "/", SP, "HTTP/3.0">>
    /\ Len(emitted) = 1
    /\ emitted[1].rec.Version = 0
    /\ emitted[1].rec.Method = <<"GET">>

\* C12 as stated: a raw record gives a record exactly when its request is
\* made of exactly three pieces separated by spaces.
C12_ExactlyThree ==
    \A i \in DOMAIN taken :
        Produced(taken[i]) # <<>>
            <=> Cardinality(Spaces(taken[i].rec.req)) = 2

\* C12, amended: a raw record gives a record exactly when its request holds
\* at least two spaces; the method is then the text before the first space
\* and the path the text between the first and the second, and what follows
\* the second space, spaces included, is the protocol text.
C12_AtLeastThree ==
    \A i \in DOMAIN taken :
        LET req == taken[i].rec.req
            out == Produced(taken[i]) IN
        /\ out # <<>> <=> Cardinality(Spaces(req)) >= 2
        /\ out # <<>> =>
              /\ out[1].rec.Method = MethodText(req)
              /\ out[1].rec.Path = PathText(req)

\* C12, witness: expandRecords sent a record for a request of four pieces,
\* none of them empty.
C12_Witness ==
    /\ Len(taken) = 1
    /\ Len(emitted) = 1
    /\ Cardinality(Spaces(taken[1].rec.req)) = 3
    /\ emitted[1].rec.Method = <<"GET">>
    /\ emitted[1].rec.Path = <<"/">>
    /\ ProtocolText(taken[1].rec.req) = <<"HTTP/1.1", SP, "HTTP/3.0">>


\* ------------------------------------------------- the filters and the flags
\* Lines that every conversion accepts: one that passes every sieve, two at
\* the edge of the window of thirty days, and one for each other sieve to
\* reject, two for the agent.
SievePool == {LineOk, LineEdge, LineBefore, LineLocal, LineBot, LineDash,
              LineRef}

Cfgs == {CfgNone, CfgAll, CfgOnly, CfgAllow, CfgPick}

\* main with any of the sets of flags, at the time parseRecords and
\* expandRecords have returned and no filter has run yet.
InitSieve ==
    \E in \in SeqsUpTo(SievePool, QueueCap + 1), c \in Cfgs :
        Loaded(in, c, MainOrder)

SpecSieve == InitSieve /\ [][NextPerm]_vars


\* --------------------------------------------------------- claims: sieves
\* The filter that runs the sieve of a name.
StageOf(name) == CHOOSE k \in Filters : order[k - 1] = name

\* What a filter has sent or is sending.
Passed(k) == forwarded[k] \o hold[k]

\* C13: with a window of N > 0 days the date filter forwards, of the
\* records it received, exactly those whose time is not before the start
\* time minus N days, the one at that very second included and the one of
\* the second before excluded; with N <= 0 it forwards them all.
C13_DateWindow ==
    LET k == StageOf("date")
        oldest == cfg.now - cfg.days * 86400
        Kept(it) == cfg.days <= 0 \/ it.rec.When >= oldest IN
    Passed(k) = SelectSeq(received[k], Kept)

\* C13, witness: with a window of thirty days the date filter received the
\* record of the oldest second kept and the record of the second before,
\* and returned after forwarding the first only.
C13_Witness ==
    LET k == StageOf("date")
        oldest == cfg.now - cfg.days * 86400 IN
    /\ cfg.days > 0
    /\ pc[k] = "done"
    /\ Len(received[k]) = 2
    /\ received[k][1].rec.When = oldest
    /\ received[k][2].rec.When = oldest - 1
    /\ forwarded[k] = <<received[k][1]>>


\* The sieve of a name is the default one, which rejects nothing.
Disabled(name) ==
    CASE name = "agent"    -> ~cfg.agent
      [] name = "date"     -> cfg.days <= 0
      [] name = "addr"     -> cfg.addr = {} /\ ~cfg.source
      [] name = "referrer" -> FALSE

\* C14: the filter of a sieve that the flags leave disabled is in the chain
\* and has sent or is sending every record it received, unchanged and in
\* the order received.
C14_DisabledIsIdentity ==
    \A k \in Filters :
        Disabled(order[k - 1]) => Passed(k) = received[k]

\* C14, witness: without any flag the filters of the dates, of the
\* addresses and of the agents each forwarded two records, one of an
\* avoided agent and one of an avoided address.
C14_Witness ==
    /\ \A name \in {"date", "addr", "agent"} : Disabled(name)
    /\ \A k \in 2..4 :
          /\ Len(forwarded[k]) = 2
          /\ \E i \in 1..2 : agentSieveAlways(cfg, forwarded[k][i].rec)
          /\ \E i \in 1..2 : forwarded[k][i].rec.Ip \in avoidedAddresses


\* C15: the address filter forwards, of the records it received, exactly
\* those whose address is in the allow-list when there is one, whatever the
\* source flag; without an allow-list and with the source flag, exactly
\* those whose address is not an avoided one; without both, all of them.
C15_AddrPrecedence ==
    LET k == StageOf("addr")
        Kept(it) ==
            IF cfg.addr # {} THEN it.rec.Ip \in cfg.addr
            ELSE IF cfg.source THEN it.rec.Ip \notin avoidedAddresses
            ELSE TRUE IN
    Passed(k) = SelectSeq(received[k], Kept)

\* C15, witness: with the source flag and an allow-list that names an
\* avoided address, the address filter received a record of that address
\* and a record of an address that is neither avoided nor allowed, and
\* returned after forwarding the first only.
C15_Witness ==
    LET k == StageOf("addr") IN
    /\ cfg.source
    /\ cfg.addr # {}
    /\ pc[k] = "done"
    /\ Len(received[k]) = 2
    /\ received[k][1].rec.Ip \in cfg.addr \cap avoidedAddresses
    /\ received[k][2].rec.Ip \notin cfg.addr \cup avoidedAddresses
    /\ forwarded[k] = <<received[k][1]>>


\* An agent that the agent sieve is meant to reject.
Avoided(agent) == agent = <<"-">> \/ agentRegex(agent)

\* C16: with the agent flag no record whose agent is "-" or matches the
\* pattern of the avoided agents is printed, and the agent filter forwards,
\* of the records it received, exactly the others; without the flag it
\* forwards all of them.
C16_AgentFilter ==
    LET k == StageOf("agent")
        Kept(it) == ~cfg.agent \/ ~Avoided(it.rec.Agent) IN
    /\ Passed(k) = SelectSeq(received[k], Kept)
    /\ cfg.agent => \A i \in DOMAIN rendered : ~Avoided(rendered[i].rec.Agent)

\* C16, witness: with the agent flag the agent filter received a record of
\* agent "-" and one of another agent, which was printed, and returned
\* after forwarding the second only.
C16_Witness ==
    LET k == StageOf("agent") IN
    /\ cfg.agent
    /\ pc[k] = "done"
    /\ Len(received[k]) = 2
    /\ received[k][1].rec.Agent = <<"-">>
    /\ forwarded[k] = <<received[k][2]>>
    /\ rendered = <<received[k][2]>>

PlainPool == {LineOk, LineRef, LineBadDate}

InitPlain == Fresh /\ \E in \in SeqsUpTo(PlainPool, MaxInput),
                         e \in {"eof", "error"} :
                         Wired(in, e, CfgNone, MainOrder)

SpecPlain == InitPlain /\ [][Next]_vars

\* A line of nine fields whose status, request and timestamp convert.
WellFormed(l) ==
    LET raws == RawOf(<<l>>) IN Len(raws) = 1 /\ Converts(raws[1])

\* C18: when nlogx, run without any flag, returns, it has printed one line
\* for each well-formed line of its input, in order, and no other.
C18_OneLinePerRecord ==
    LET Lines == {i \in DOMAIN input : WellFormed(input[i])} IN
    status = "exit0" =>
        /\ Len(rendered) = Cardinality(Lines)
        /\ {rendered[i].ln : i \in DOMAIN rendered} = Lines


\* --------------------------------------------------------- claims: queues
\* What was sent on a channel and what was received from it.
SentOn(k) ==
    CASE k = 0 -> <<>>
      [] k = 1 -> emitted
      [] OTHER -> forwarded[k]
TakenFrom(k) ==
    CASE k = 0 -> taken
      [] k = 5 -> rendered
      [] OTHER -> received[k + 1]

\* C19: no channel holds more records than its capacity; what was sent on
\* a channel is what was received from it followed by what it holds, so
\* that a sender waiting for room loses nothing, and when main returns
\* expandRecords has received every raw record of the input; a stage that
\* returned, or main, found the channel it reads closed and empty.
C19_Backpressure ==
    /\ \A k \in Chans : Len(chan[k]) <= Cap(k)
    /\ \A k \in Chans \ {0} : SentOn(k) = TakenFrom(k) \o chan[k]
    /\ \A k \in Stages : pc[k] = "send" => Len(hold[k]) = 1
    /\ pcScan = "send" => pend # <<>>
    /\ \A k \in Stages :
          pc[k] = "done" => closed[k - 1] /\ chan[k - 1] = <<>>
    /\ status = "exit0" =>
          /\ closed[5] /\ chan[5] = <<>>
          /\ Recs(taken) = RawOf(input)

\* C19, witness: parseRecords waits to send a record on its full channel
\* while a filter waits on its empty channel, which is not closed.
C19_Witness ==
    /\ pcScan = "send"
    /\ Len(chan[0]) = Cap(0)
    /\ \E k \in Filters :
          pc[k] = "recv" /\ chan[k - 1] = <<>> /\ ~closed[k - 1]


\* The members of a sequence.
Items(s) == {s[i] : i \in DOMAIN s}

\* C20: every record printed is, field for field, the record expandRecords
\* sent for the line it comes from; every filter has sent or is sending
\* only records it received; no line has two records printed, nor two sent
\* by expandRecords.
C20_NoMutation ==
    /\ Items(rendered) \subseteq Items(emitted)
    /\ \A k \in Filters : Items(Passed(k)) \subseteq Items(received[k])
    /\ Cardinality(Items(Lns(rendered))) = Len(rendered)
    /\ Cardinality(Items(Lns(emitted))) = Len(emitted)
    /\ \A i \in DOMAIN emitted : emitted[i].ln \in DOMAIN input

\* C20, witness: main returned after printing two different records, which
\* went through the four filters.
C20_Witness ==
    /\ status = "exit0"
    /\ Len(rendered) = 2
    /\ rendered[1].rec # rendered[2].rec
    /\ \A k \in Filters : forwarded[k] = rendered


\* ------------------------------------------------------ the width of a line
\* The texts given for a width: none, numerals below, at and above the
\* minimum, a negative one, one beyond 32 bits, and a text that is no number.
ColumnTexts ==
    {<<>>, <<"0">>, <<"-7">>, <<"100">>, <<"144">>, <<"145">>, <<"146">>,
     <<"250">>, <<"2147483647">>, <<"2147483648">>, <<"wide">>}
FlagTexts == ColumnTexts \ {<<"2147483648">>}

\* main: os.Getenv("COLUMNS") and its conversion; a text that does not
\* convert is reported and the default width is kept.
MainGetenv ==
    /\ pcMain = "getenv"
    /\ nbColumns' = IF environ = <<>> THEN nbColumns
                    ELSE IF ParseInt(environ).err THEN DefaultColumns
                    ELSE ParseInt(environ).val
    /\ pcMain' = "clamp"
    /\ UNCHANGED <<scanVars, lineVars, input, ending, lineno, pend, after,
                   cfg, order, chan, closed, closes, pc, hold, rendered,
                   status, taken, emitted, received, forwarded, environ,
                   argv, format>>

\* main: the width read from the environment is raised to the minimum.
MainClamp ==
    /\ pcMain = "clamp"
    /\ nbColumns' = IF nbColumns < MinColumns THEN MinColumns ELSE nbColumns
    /\ pcMain' = "flags"
    /\ UNCHANGED <<scanVars, lineVars, input, ending, lineno, pend, after,
                   cfg, order, chan, closed, closes, pc, hold, rendered,
                   status, taken, emitted, received, forwarded, environ,
                   argv, format>>

\* main: pflag.Parse.  --columns has the width computed so far as its
\* default and stores its value in nbColumns; a value that does not convert
\* ends the process with status 2.
MainParse ==
    /\ pcMain = "flags"
    /\ LET v == ParseInt64(argv.columns) IN
        IF argv.columns = <<>>
        THEN pcMain' = "wired" /\ UNCHANGED <<nbColumns, status>>
        ELSE IF v.err
        THEN pcMain' = "exit2" /\ status' = "exit2" /\ UNCHANGED nbColumns
        ELSE pcMain' = "wired" /\ nbColumns' = v.val /\ UNCHANGED status
    /\ UNCHANGED <<scanVars, lineVars, input, ending, lineno, pend, after,
                   cfg, order, chan, closed, closes, pc, hold, rendered,
                   taken, emitted, received, forwarded, environ, argv,
                   format>>

\* The precision of the agent in the format of the human renderer.
AgentPrecision(n) == n - 145

\* main: with --human, the format of a line is computed before the first
\* record is printed.
MainFormat ==
    /\ pcMain = "wired"
    /\ status = "run"
    /\ argv.human
    /\ format = <<>>
    /\ rendered = <<>>
    /\ format' = <<AgentPrecision(nbColumns)>>
    /\ UNCHANGED <<scanVars, lineVars, input, ending, lineno, pend, after,
                   cfg, order, chan, closed, closes, pc, hold, rendered,
                   status, taken, emitted, received, forwarded, environ,
                   argv, nbColumns, pcMain>>

\* main at its first statement, for any COLUMNS and any --columns, with or
\* without --human.
InitCols ==
    /\ Fresh
    /\ Idle(<<>>, "eof", CfgNone, MainOrder)
    /\ environ \in ColumnTexts
    /\ argv \in [human : BOOLEAN, columns : FlagTexts]
    /\ nbColumns = DefaultColumns
    /\ pcMain = "getenv"
    /\ format = <<>>

NextCols == MainGetenv \/ MainClamp \/ MainParse \/ MainFormat

SpecCols == InitCols /\ [][NextCols]_vars

\* ----------------------------------------------------------- claims: width
\* C21: once the flags are parsed the width of a line is at least
\* MinColumns, whatever COLUMNS and --columns are, and the precision of the
\* agent in the human format is never negative.
C21_WidthAtLeastMin ==
    /\ pcMain = "wired" => nbColumns >= MinColumns
    /\ format # <<>> => format[1] >= 0

=============================================================================
